---- MODULE Spec2Model ----
(***************************************************************************)
(* Model of the text chunking engine of the Polish TTS project             *)
(* (src/utils.py: chunk_text_intelligently and its helpers).               *)
(*                                                                         *)
(* A Python string is a sequence of characters; a character is a           *)
(* one-character TLA+ string.  len() is Len, + is \o.                      *)
(***************************************************************************)
EXTENDS Integers, Sequences, FiniteSets, TLC

VARIABLES
    text, max_size, hard_limit, punctuation_fix,  \* the arguments of the call
    pc,             \* where the call is
    chunks,         \* chunks of chunk_text_intelligently
    paragraphs,     \* paragraphs of chunk_text_intelligently
    pi,             \* index of the paragraph the paragraph loop is at
    sentences,      \* sentences of _chunk_paragraph
    si,             \* index of the sentence the sentence loop is at
    para_chunks,    \* chunks of _chunk_paragraph
    current_chunk,  \* current_chunk of _chunk_paragraph
    unit,           \* the oversized sentence split last
    emitted,        \* the chunks that sentence added
    fs,             \* the audio files on disk: path -> [params, frames]
    input_files, output_file,  \* the arguments of concatenate_audio_files
    raised,         \* the exception concatenate_audio_files ended with
    text_chunks,    \* text_chunks of main
    chunk_files,    \* chunk_files of main
    chunk_i,        \* the chunk main's synthesis loop is at (i + 1)
    tts_calls,      \* the calls of tts.tts_to_file so far, with their outcome
    concat_calls,   \* the input lists concatenate_audio_files was called on
    test_chunks,    \* args.test_chunks of main
    report,         \* the status main printed for each chunk
    chunks_file,    \* the entries main wrote to the chunks file
    summary         \* the counts of the summary main printed

args == <<text, max_size, hard_limit, punctuation_fix>>

locals == <<paragraphs, pi, sentences, si, para_chunks, current_chunk, unit, emitted>>

reportvars == <<test_chunks, report, chunks_file, summary>>

mainvars ==
    <<fs, input_files, output_file, raised, text_chunks, chunk_files, chunk_i,
      tts_calls, concat_calls, reportvars>>

vars == <<args, pc, chunks, locals, mainvars>>

----------------------------------------------------------------------------
(* Characters *)

\* The characters str.strip(), str.split() and the regex class \s treat as
\* whitespace (the ones the model's texts use).
Whitespace == {" ", "\t", "\n"}

IsSpace(c) == c \in Whitespace

\* U+2014, the em-dash of the third pause pattern.
EmDash == "EMDASH"

----------------------------------------------------------------------------
(* Python string primitives *)

\* text.replace(old, new) for one-character old and new.
replace(s, old, new) == [i \in 1..Len(s) |-> IF s[i] = old THEN new ELSE s[i]]

RECURSIVE lstrip(_)
lstrip(s) == IF s # <<>> /\ IsSpace(Head(s)) THEN lstrip(Tail(s)) ELSE s

RECURSIVE rstrip(_)
rstrip(s) ==
    IF s # <<>> /\ IsSpace(s[Len(s)]) THEN rstrip(SubSeq(s, 1, Len(s) - 1)) ELSE s

\* strip with the stripping forgotten.
strip_none(s) == s

\* s.strip(): leading and trailing whitespace removed.
strip(s) == rstrip(lstrip(s))

RECURSIVE split_from(_, _, _)
split_from(s, sep, cur) ==
    IF s = <<>> THEN <<cur>>
    ELSE IF Head(s) = sep THEN <<cur>> \o split_from(Tail(s), sep, <<>>)
    ELSE split_from(Tail(s), sep, Append(cur, Head(s)))

\* s.split(sep) for a one-character sep: n occurrences give n + 1 parts,
\* empty parts included.
split(s, sep) == split_from(s, sep, <<>>)

RECURSIVE split_ws_from(_, _)
split_ws_from(s, cur) ==
    IF s = <<>> THEN (IF cur = <<>> THEN <<>> ELSE <<cur>>)
    ELSE IF IsSpace(Head(s))
         THEN (IF cur = <<>> THEN <<>> ELSE <<cur>>) \o split_ws_from(Tail(s), <<>>)
         ELSE split_ws_from(Tail(s), Append(cur, Head(s)))

\* s.split(): the maximal runs of non-whitespace characters.
split_ws(s) == split_ws_from(s, <<>>)

----------------------------------------------------------------------------
(* Regular expressions of _split_by_natural_pauses *)

\* pause_patterns with the colon listed before the comma.
pause_patterns_colon_first ==
    << [lead |-> FALSE, lit |-> <<":">>],
       [lead |-> FALSE, lit |-> <<",">>],
       [lead |-> FALSE, lit |-> <<EmDash>>],
       [lead |-> FALSE, lit |-> <<"-">>],
       [lead |-> TRUE,  lit |-> <<"i">>],
       [lead |-> TRUE,  lit |-> <<"a", "l", "e">>],
       [lead |-> TRUE,  lit |-> <<"o", "r", "a", "z">>] >>

\* A pause pattern is (lit\s+) or (\s+lit\s+): lead says whether the pattern
\* starts with \s+, lit is its literal part.
pause_patterns ==
    << [lead |-> FALSE, lit |-> <<",">>],
       [lead |-> FALSE, lit |-> <<":">>],
       [lead |-> FALSE, lit |-> <<EmDash>>],
       [lead |-> FALSE, lit |-> <<"-">>],
       [lead |-> TRUE,  lit |-> <<"i">>],
       [lead |-> TRUE,  lit |-> <<"a", "l", "e">>],
       [lead |-> TRUE,  lit |-> <<"o", "r", "a", "z">>] >>

\* The first index >= p of s that holds no whitespace (Len(s) + 1 if none):
\* where a greedy \s+ or \s* starting at p stops.
RECURSIVE ws_run_end(_, _)
ws_run_end(s, p) == IF p <= Len(s) /\ IsSpace(s[p]) THEN ws_run_end(s, p + 1) ELSE p

\* The index after the match of pat that starts at index p of s, or 0 when pat
\* does not match there.  The literal starts with a non-space character, so a
\* leading \s+ can only match the whole run of whitespace at p.
match_end(s, p, pat) ==
    LET q0 == IF pat.lead THEN ws_run_end(s, p) ELSE p
        q1 == q0 + Len(pat.lit)
        q2 == ws_run_end(s, q1)
    IN  IF /\ (pat.lead => q0 > p)
           /\ q1 - 1 <= Len(s)
           /\ SubSeq(s, q0, q1 - 1) = pat.lit
           /\ q2 > q1
        THEN q2 ELSE 0

RECURSIVE re_split_from(_, _, _, _)
re_split_from(s, pat, last, p) ==
    IF p > Len(s) THEN << SubSeq(s, last, Len(s)) >>
    ELSE LET e == match_end(s, p, pat)
         IN  IF e = 0 THEN re_split_from(s, pat, last, p + 1)
             ELSE << SubSeq(s, last, p - 1), SubSeq(s, p, e - 1) >>
                     \o re_split_from(s, pat, e, e)

\* re.split(pattern, text) for a pattern that is one capturing group: the
\* pieces between the leftmost non-overlapping matches, with each matched
\* separator as an element of its own between them.
re_split(pat, s) == re_split_from(s, pat, 1, 1)

----------------------------------------------------------------------------
(* _split_by_words *)

\* words_step with >= for > in the test of line 200.
words_step_ge(st, word, max) ==
    IF Len(st.current_chunk) + 1 + Len(word) >= max /\ st.current_chunk # <<>>
    THEN [chunks |-> Append(st.chunks, strip(st.current_chunk)),
          current_chunk |-> word]
    ELSE [chunks |-> st.chunks,
          current_chunk |-> IF st.current_chunk # <<>>
                            THEN st.current_chunk \o <<" ">> \o word
                            ELSE word]

\* One iteration of the word loop; st = [chunks, current_chunk].
words_step(st, word, max) ==
    IF Len(st.current_chunk) + 1 + Len(word) > max /\ st.current_chunk # <<>>
    THEN [chunks |-> Append(st.chunks, strip(st.current_chunk)),
          current_chunk |-> word]
    ELSE [chunks |-> st.chunks,
          current_chunk |-> IF st.current_chunk # <<>>
                            THEN st.current_chunk \o <<" ">> \o word
                            ELSE word]

RECURSIVE words_loop(_, _, _)
words_loop(st, words, max) ==
    IF words = <<>> THEN st
    ELSE words_loop(words_step(st, Head(words), max), Tail(words), max)

\* The final flush of a loop: current is appended, stripped, unless it strips
\* to the empty string.
flush(st_chunks, current) ==
    IF strip(current) # <<>> THEN Append(st_chunks, strip(current)) ELSE st_chunks

_split_by_words(s, max) ==
    LET st == words_loop([chunks |-> <<>>, current_chunk |-> <<>>], split_ws(s), max)
    IN  flush(st.chunks, st.current_chunk)

----------------------------------------------------------------------------
(* _split_by_natural_pauses *)

\* One iteration of the segment loop with the test of line 178 forgotten: the
\* buffer is appended even when it is empty.
segments_step_keep_empty(st, segment, max) ==
    IF Len(st.current) + Len(segment) <= max
    THEN [chunks |-> st.chunks, current |-> st.current \o segment]
    ELSE [chunks |-> Append(st.chunks, strip(st.current)), current |-> segment]

\* One iteration of the segment loop; st = [chunks, current].
segments_step(st, segment, max) ==
    IF Len(st.current) + Len(segment) <= max
    THEN [chunks |-> st.chunks, current |-> st.current \o segment]
    ELSE [chunks |-> flush(st.chunks, st.current), current |-> segment]

RECURSIVE segments_loop(_, _, _)
segments_loop(st, segments, max) ==
    IF segments = <<>> THEN st
    ELSE segments_loop(segments_step(st, Head(segments), max), Tail(segments), max)

RECURSIVE segments_loop_keep_empty(_, _, _)
segments_loop_keep_empty(st, segments, max) ==
    IF segments = <<>> THEN st
    ELSE segments_loop_keep_empty(segments_step_keep_empty(st, Head(segments), max),
                                  Tail(segments), max)

\* reassemble without the emptiness tests of lines 178 and 182.
reassemble_keep_empty(segments, max) ==
    LET st == segments_loop_keep_empty([chunks |-> <<>>, current |-> <<>>],
                                       segments, max)
    IN  Append(st.chunks, strip(st.current))

\* The chunks one pattern's segments are reassembled into.
reassemble(segments, max) ==
    LET st == segments_loop([chunks |-> <<>>, current |-> <<>>], segments, max)
    IN  flush(st.chunks, st.current)

all_within(cs, max) == \A i \in 1..Len(cs) : Len(cs[i]) <= max

\* try_patterns without the test of line 186: the first pattern that splits
\* the text wins, whatever the length of its chunks.
RECURSIVE try_patterns_first_split(_, _, _)
try_patterns_first_split(s, max, k) ==
    IF k > Len(pause_patterns) THEN <<s>>
    ELSE LET segments == re_split(pause_patterns[k], s)
         IN  IF Len(segments) > 1
             THEN reassemble(segments, max)
             ELSE try_patterns_first_split(s, max, k + 1)

RECURSIVE try_patterns(_, _, _)
try_patterns(s, max, k) ==
    IF k > Len(pause_patterns) THEN <<s>>
    ELSE LET segments == re_split(pause_patterns[k], s)
         IN  IF Len(segments) > 1 /\ all_within(reassemble(segments, max), max)
             THEN reassemble(segments, max)
             ELSE try_patterns(s, max, k + 1)

_split_by_natural_pauses(s, max) == try_patterns(s, max, 1)

----------------------------------------------------------------------------
(* _chunk_paragraph *)

\* natural_loop without the word-splitting branch: every natural chunk is
\* accepted, whatever its length.
RECURSIVE natural_loop_accept_all(_, _, _, _)
natural_loop_accept_all(cs, natural_chunks, max, hard) ==
    IF natural_chunks = <<>> THEN cs
    ELSE natural_loop_accept_all(Append(cs, strip(Head(natural_chunks))),
                                 Tail(natural_chunks), max, hard)

\* natural_loop without the concession of lines 127-129: every natural chunk
\* longer than max_size is split by words.
RECURSIVE natural_loop_no_concession(_, _, _, _)
natural_loop_no_concession(cs, natural_chunks, max, hard) ==
    IF natural_chunks = <<>> THEN cs
    ELSE LET chunk == Head(natural_chunks)
             cs2 == IF Len(chunk) <= max THEN Append(cs, strip(chunk))
                    ELSE cs \o _split_by_words(chunk, max)
         IN  natural_loop_no_concession(cs2, Tail(natural_chunks), max, hard)

\* What an oversized sentence adds to chunks: each natural chunk as it is
\* (stripped) up to hard_limit, split by words beyond it.
RECURSIVE natural_loop(_, _, _, _)
natural_loop(cs, natural_chunks, max, hard) ==
    IF natural_chunks = <<>> THEN cs
    ELSE LET chunk == Head(natural_chunks)
             cs2 == IF Len(chunk) <= max THEN Append(cs, strip(chunk))
                    ELSE IF Len(chunk) <= hard THEN Append(cs, strip(chunk))
                    ELSE cs \o _split_by_words(chunk, max)
         IN  natural_loop(cs2, Tail(natural_chunks), max, hard)

\* sentence_step with the flush of lines 117-119 forgotten: the pending
\* buffer stays pending while an oversized sentence is chunked.
sentence_step_no_flush(st, raw_sentence, max, hard) ==
    LET sentence == strip(raw_sentence)
    IN  IF sentence = <<>> THEN st
        ELSE IF Len(sentence) > max
        THEN [chunks |-> natural_loop(st.chunks,
                                      _split_by_natural_pauses(sentence, max),
                                      max, hard),
              current_chunk |-> st.current_chunk]
        ELSE IF Len(st.current_chunk) + 2 + Len(sentence) > max
                /\ st.current_chunk # <<>>
        THEN [chunks |-> Append(st.chunks, strip(st.current_chunk)),
              current_chunk |-> sentence]
        ELSE [chunks |-> st.chunks,
              current_chunk |-> IF st.current_chunk # <<>>
                                THEN st.current_chunk \o <<";", " ">> \o sentence
                                ELSE sentence]

\* save_pending with line 119 forgotten: the buffer is appended and kept.
save_pending_keep_buffer(st) ==
    [chunks |-> flush(st.chunks, st.current_chunk),
     current_chunk |-> st.current_chunk]

\* Lines 117-119: the pending buffer is saved before an oversized sentence.
save_pending(st) ==
    [chunks |-> flush(st.chunks, st.current_chunk),
     current_chunk |-> IF strip(st.current_chunk) # <<>> THEN <<>>
                       ELSE st.current_chunk]

\* split_oversized that goes to the words at once.
split_oversized_by_words(cs, sentence, max, hard) ==
    cs \o _split_by_words(sentence, max)

\* Lines 122-133: the chunks of an oversized sentence are appended to cs.
split_oversized(cs, sentence, max, hard) ==
    natural_loop(cs, _split_by_natural_pauses(sentence, max), max, hard)

\* sentence_step with the space of the "; " that joins two sentences left
\* out of the length tested at line 137.
sentence_step_short_join(st, raw_sentence, max, hard) ==
    LET sentence == strip(raw_sentence)
    IN  IF sentence = <<>> THEN st
        ELSE IF Len(sentence) > max
        THEN [chunks |-> split_oversized(save_pending(st).chunks, sentence, max, hard),
              current_chunk |-> save_pending(st).current_chunk]
        ELSE IF Len(st.current_chunk) + 1 + Len(sentence) > max
                /\ st.current_chunk # <<>>
        THEN [chunks |-> Append(st.chunks, strip(st.current_chunk)),
              current_chunk |-> sentence]
        ELSE [chunks |-> st.chunks,
              current_chunk |-> IF st.current_chunk # <<>>
                                THEN st.current_chunk \o <<";", " ">> \o sentence
                                ELSE sentence]

\* One iteration of the sentence loop; st = [chunks, current_chunk].
sentence_step(st, raw_sentence, max, hard) ==
    LET sentence == strip(raw_sentence)
    IN  IF sentence = <<>> THEN st
        ELSE IF Len(sentence) > max
        THEN [chunks |-> split_oversized(save_pending(st).chunks, sentence, max, hard),
              current_chunk |-> save_pending(st).current_chunk]
        ELSE IF Len(st.current_chunk) + 2 + Len(sentence) > max
                /\ st.current_chunk # <<>>
        THEN [chunks |-> Append(st.chunks, strip(st.current_chunk)),
              current_chunk |-> sentence]
        ELSE [chunks |-> st.chunks,
              current_chunk |-> IF st.current_chunk # <<>>
                                THEN st.current_chunk \o <<";", " ">> \o sentence
                                ELSE sentence]

RECURSIVE sentence_loop(_, _, _, _)
sentence_loop(st, ss, max, hard) ==
    IF ss = <<>> THEN st
    ELSE sentence_loop(sentence_step(st, Head(ss), max, hard), Tail(ss), max, hard)

_chunk_paragraph(paragraph, max, hard) ==
    LET st == sentence_loop([chunks |-> <<>>, current_chunk |-> <<>>],
                            split(paragraph, ";"), max, hard)
    IN  flush(st.chunks, st.current_chunk)

----------------------------------------------------------------------------
(* chunk_text_intelligently *)

\* normalize with the flag ignored.
normalize_always(s, fix) == replace(s, ".", ";")

\* Step 0: the hallucination fix.
normalize(s, fix) == IF fix THEN replace(s, ".", ";") ELSE s

\* line_step with the lines of a paragraph joined without the space.
line_step_no_space(st, raw_line) ==
    LET line == strip(raw_line)
    IN  IF line = <<>>
        THEN IF strip(st.current_para) # <<>>
             THEN [paragraphs |-> Append(st.paragraphs, strip(st.current_para)),
                   current_para |-> <<>>]
             ELSE st
        ELSE [paragraphs |-> st.paragraphs, current_para |-> st.current_para \o line]

\* One iteration of the line loop; st = [paragraphs, current_para].
line_step(st, raw_line) ==
    LET line == strip(raw_line)
    IN  IF line = <<>>
        THEN IF strip(st.current_para) # <<>>
             THEN [paragraphs |-> Append(st.paragraphs, strip(st.current_para)),
                   current_para |-> <<>>]
             ELSE st
        ELSE [paragraphs |-> st.paragraphs,
              current_para |-> IF st.current_para # <<>>
                               THEN st.current_para \o <<" ">> \o line
                               ELSE line]

RECURSIVE line_loop(_, _)
line_loop(st, lines) ==
    IF lines = <<>> THEN st ELSE line_loop(line_step(st, Head(lines)), Tail(lines))

\* The paragraphs of a text: lines 61-80.
split_paragraphs(s) ==
    LET st == line_loop([paragraphs |-> <<>>, current_para |-> <<>>], split(s, "\n"))
    IN  flush(st.paragraphs, st.current_para)

\* paragraph_step with < for <= in the test of line 91.
paragraph_step_lt(cs, raw_paragraph, max, hard) ==
    LET paragraph == strip(raw_paragraph)
    IN  IF paragraph = <<>> THEN cs
        ELSE IF Len(paragraph) < max THEN Append(cs, paragraph)
        ELSE cs \o _chunk_paragraph(paragraph, max, hard)

\* paragraph_step that merges a short paragraph into the chunk before it
\* when the two fit in max_size.
paragraph_step_merge(cs, raw_paragraph, max, hard) ==
    LET paragraph == strip(raw_paragraph)
    IN  IF paragraph = <<>> THEN cs
        ELSE IF Len(paragraph) <= max
        THEN IF cs # <<>> /\ Len(cs[Len(cs)]) + 1 + Len(paragraph) <= max
             THEN [cs EXCEPT ![Len(cs)] = @ \o <<" ">> \o paragraph]
             ELSE Append(cs, paragraph)
        ELSE cs \o _chunk_paragraph(paragraph, max, hard)

\* One iteration of the paragraph loop: the chunks a paragraph adds.
paragraph_step(cs, raw_paragraph, max, hard) ==
    LET paragraph == strip(raw_paragraph)
    IN  IF paragraph = <<>> THEN cs
        ELSE IF Len(paragraph) <= max THEN Append(cs, paragraph)
        ELSE cs \o _chunk_paragraph(paragraph, max, hard)

RECURSIVE paragraph_loop(_, _, _, _)
paragraph_loop(cs, ps, max, hard) ==
    IF ps = <<>> THEN cs
    ELSE paragraph_loop(paragraph_step(cs, Head(ps), max, hard), Tail(ps), max, hard)

chunk_text_intelligently(s, max, hard, fix) ==
    paragraph_loop(<<>>, split_paragraphs(normalize(s, fix)), max, hard)

---------------------------------------------------------------------------------------------------------------------------------------------------
(* Inputs *)

\* Longest text enumerated character by character.
MaxLen == 4

\* Most tokens of a text enumerated token by token.
MaxTokens == 3

\* Largest enumerated hard_limit (max_size ranges over 1..hard_limit).
MaxHard == 4

\* The characters of the texts enumerated character by character.
Alphabet == {"a", " ", "\n", ";", ".", ","}

Texts == UNION {[1..n -> Alphabet] : n \in 0..MaxLen}

\* The tokens of the longer texts: a word, alone or followed by a sentence
\* end, a pause, a space or a paragraph break.
Tokens ==
    { <<"a">>, <<"a", ";">>, <<"a", ".">>, <<"a", ",", " ">>, <<"a", " ">>,
      <<"a", "\n", "\n">> }

RECURSIVE Flatten(_)
Flatten(ss) == IF ss = <<>> THEN <<>> ELSE Head(ss) \o Flatten(Tail(ss))

TokenTexts == {Flatten(ts) : ts \in UNION {[1..n -> Tokens] : n \in 0..MaxTokens}}

\* The default hard_limit of chunk_text_intelligently, which main passes too.
DefaultHardLimit == 400

RECURSIVE Repeat(_, _)
Repeat(s, n) == IF n = 0 THEN <<>> ELSE s \o Repeat(s, n - 1)

\* Example 1: two short paragraphs, max_size = 100.
Example1Text ==
    <<"S", "h", "o", "r", "t", " ", "l", "i", "n", "e", " ", "o", "n", "e", ".",
      "\n", "\n",
      "S", "h", "o", "r", "t", " ", "l", "i", "n", "e", " ", "t", "w", "o", ".">>

\* Example 3 at one tenth of its size: "a, b, c, d" repeated to length 30,
\* max_size = 10, hard_limit = 40.
Example3Text == Repeat(<<"a", ",", " ", "b", ",", " ", "c", ",", " ", "d">>, 3)

\* Example 4 at one tenth of its size: one token of 41 characters,
\* max_size = 22, hard_limit = 40.
Example4Text == [i \in 1..41 |-> "x"]

Examples ==
    { [text |-> Example1Text, max_size |-> 100, hard_limit |-> DefaultHardLimit],
      [text |-> Example3Text, max_size |-> 10, hard_limit |-> 40],
      [text |-> Example4Text, max_size |-> 22, hard_limit |-> 40] }

----------------------------------------------------------------------------
(* The call as a state machine *)

InitEnumerated ==
    /\ text \in Texts \cup TokenTexts
    /\ hard_limit \in 1..MaxHard
    /\ max_size \in 1..hard_limit
    /\ punctuation_fix \in BOOLEAN

InitExamples ==
    /\ \E e \in Examples :
          /\ text = e.text
          /\ max_size = e.max_size
          /\ hard_limit = e.hard_limit
    /\ punctuation_fix = TRUE

NoLocals ==
    /\ paragraphs = <<>>
    /\ pi = 0
    /\ sentences = <<>>
    /\ si = 0
    /\ para_chunks = <<>>
    /\ current_chunk = <<>>
    /\ unit = <<>>
    /\ emitted = <<>>

\* Nothing of main has run.
NoMain ==
    /\ fs = <<>>
    /\ input_files = <<>>
    /\ output_file = <<>>
    /\ raised = "none"
    /\ text_chunks = <<>>
    /\ chunk_files = <<>>
    /\ chunk_i = 0
    /\ tts_calls = <<>>
    /\ concat_calls = <<>>
    /\ test_chunks = FALSE
    /\ report = <<>>
    /\ chunks_file = <<>>
    /\ summary = <<>>

Init ==
    /\ NoMain
    /\ InitEnumerated \/ InitExamples
    /\ pc = "ready"
    /\ chunks = <<>>
    /\ NoLocals

\* chunk_text_intelligently(text, max_size, hard_limit, punctuation_fix) runs
\* and returns chunks.
Call ==
    /\ pc = "ready"
    /\ chunks' = chunk_text_intelligently(text, max_size, hard_limit, punctuation_fix)
    /\ pc' = "done"
    /\ UNCHANGED <<mainvars, args, locals>>

Next == Call

Spec == Init /\ [][Next]_vars

----------------------------------------------------------------------------
(* The call step by step: one action per iteration of the paragraph loop   *)
(* and of the sentence loop                                                *)

\* The texts of the stepwise runs.
StepTexts == TokenTexts \cup {t \in Texts : Len(t) < MaxLen}

\* Before the call: nothing is bound yet.
StepInit ==
    /\ NoMain
    /\ text = <<>>
    /\ max_size = 1
    /\ hard_limit = 1
    /\ punctuation_fix = TRUE
    /\ pc = "call"
    /\ chunks = <<>>
    /\ NoLocals

\* Line 38: the call binds its arguments.
Enter ==
    /\ pc = "call"
    /\ \/ /\ text' \in StepTexts
          /\ hard_limit' \in 1..MaxHard
          /\ max_size' \in 1..hard_limit'
          /\ punctuation_fix' \in BOOLEAN
       \/ /\ \E e \in Examples :
                /\ text' = e.text
                /\ max_size' = e.max_size
                /\ hard_limit' = e.hard_limit
          /\ punctuation_fix' = TRUE
    /\ pc' = "start"
    /\ UNCHANGED <<mainvars, chunks, locals>>

\* A for loop over seq has an element at index i to run its body on.
has_next(i, seq) == i <= Len(seq)

\* A for loop that never ends.
exhausted_never(i, seq) == FALSE

\* A for loop over seq is past its last element.
exhausted(i, seq) == i > Len(seq)

\* The paragraph and the sentence the loops are at, stripped (lines 86, 110).
cur_paragraph == strip(paragraphs[pi])

cur_sentence == strip(sentences[si])

\* When each step can be taken.
CanShortParagraph ==
    pc = "paragraphs" /\ has_next(pi, paragraphs) /\ Len(cur_paragraph) <= max_size

CanLongParagraph ==
    pc = "paragraphs" /\ has_next(pi, paragraphs) /\ Len(cur_paragraph) > max_size

CanGroupSentence ==
    pc = "sentences" /\ has_next(si, sentences) /\ Len(cur_sentence) <= max_size

CanSavePending ==
    pc = "sentences" /\ has_next(si, sentences) /\ Len(cur_sentence) > max_size

CanEndParagraph == pc = "sentences" /\ exhausted(si, sentences)

CanReturn == pc = "paragraphs" /\ exhausted(pi, paragraphs)

\* Some step can be taken: ENABLED <<StepNext>>_vars, written out (every
\* step's assignments can be made and change pc or an index).
CanStep ==
    \/ pc \in {"call", "start", "oversized"}
    \/ CanShortParagraph
    \/ CanLongParagraph
    \/ CanGroupSentence
    \/ CanSavePending
    \/ CanEndParagraph
    \/ CanReturn

\* Lines 57-83: Step 0, the paragraphs, and chunks = [].
Begin ==
    /\ pc = "start"
    /\ paragraphs' = split_paragraphs(normalize(text, punctuation_fix))
    /\ chunks' = <<>>
    /\ pi' = 1
    /\ pc' = "paragraphs"
    /\ UNCHANGED <<mainvars, args, sentences, si, para_chunks, current_chunk, unit, emitted>>

\* Lines 85-93: an empty paragraph is skipped, a paragraph of at most
\* max_size characters is one chunk.
ShortParagraph ==
    /\ CanShortParagraph
    /\ chunks' = IF cur_paragraph = <<>> THEN chunks ELSE Append(chunks, cur_paragraph)
    /\ pi' = pi + 1
    /\ UNCHANGED <<mainvars, args, pc, paragraphs, sentences, si, para_chunks, current_chunk,
                   unit, emitted>>

\* Lines 96, 105-107: _chunk_paragraph is entered for a longer paragraph.
LongParagraph ==
    /\ CanLongParagraph
    /\ sentences' = split(cur_paragraph, ";")
    /\ si' = 1
    /\ para_chunks' = <<>>
    /\ current_chunk' = <<>>
    /\ pc' = "sentences"
    /\ UNCHANGED <<mainvars, args, chunks, paragraphs, pi, unit, emitted>>

\* Lines 110-112 and 137-144: an empty sentence is skipped, a sentence of at
\* most max_size characters joins the buffer or starts a new one.
GroupSentence ==
    /\ CanGroupSentence
    /\ LET st == sentence_step([chunks |-> para_chunks,
                                current_chunk |-> current_chunk],
                               sentences[si], max_size, hard_limit)
       IN  /\ para_chunks' = st.chunks
           /\ current_chunk' = st.current_chunk
    /\ si' = si + 1
    /\ UNCHANGED <<mainvars, args, pc, chunks, paragraphs, pi, sentences, unit, emitted>>

\* Lines 115-119: an oversized sentence is met; the buffer is saved.
SavePending ==
    /\ CanSavePending
    /\ LET st == save_pending([chunks |-> para_chunks,
                               current_chunk |-> current_chunk])
       IN  /\ para_chunks' = st.chunks
           /\ current_chunk' = st.current_chunk
    /\ pc' = "oversized"
    /\ UNCHANGED <<mainvars, args, chunks, paragraphs, pi, sentences, si, unit, emitted>>

\* Lines 122-134: the oversized sentence is split and its chunks appended.
SplitOversized ==
    /\ pc = "oversized"
    /\ para_chunks' = split_oversized(para_chunks, cur_sentence, max_size, hard_limit)
    /\ unit' = cur_sentence
    /\ emitted' = SubSeq(para_chunks', Len(para_chunks) + 1, Len(para_chunks'))
    /\ si' = si + 1
    /\ pc' = "sentences"
    /\ UNCHANGED <<mainvars, args, chunks, paragraphs, pi, sentences, current_chunk>>

\* Lines 147-150 and 97: the last buffer is added, _chunk_paragraph returns
\* and its chunks extend chunks.
EndParagraph ==
    /\ CanEndParagraph
    /\ chunks' = chunks \o flush(para_chunks, current_chunk)
    /\ pi' = pi + 1
    /\ pc' = "paragraphs"
    /\ UNCHANGED <<mainvars, args, paragraphs, sentences, si, para_chunks, current_chunk,
                   unit, emitted>>

\* Line 99: chunks is returned.
Return ==
    /\ CanReturn
    /\ pc' = "returned"
    /\ UNCHANGED <<mainvars, args, chunks, locals>>

StepNext ==
    \/ Enter
    \/ Begin
    \/ ShortParagraph
    \/ LongParagraph
    \/ GroupSentence
    \/ SavePending
    \/ SplitOversized
    \/ EndParagraph
    \/ Return

\* The interpreter does not stop in the middle of the call: a step that can
\* be taken is taken.  This is WF_vars(StepNext) with CanStep for
\* ENABLED <<StepNext>>_vars.
StepFairness == []<>(~CanStep) \/ []<><<StepNext>>_vars

StepSpec == StepInit /\ [][StepNext]_vars /\ StepFairness

----------------------------------------------------------------------------
(* _split_by_natural_pauses as a call of its own *)

\* Longest unit enumerated character by character.
MaxUnitLen == 5

\* The characters of the enumerated units: a letter, the literals of three
\* patterns and the space.
UnitAlphabet == {"a", ",", ":", "i", " "}

\* One unit for each pattern the enumerated units cannot match.
PauseExamples ==
    { <<"a", "a", " ", EmDash, " ", "a", "a">>,
      <<"a", "a", " ", "-", " ", "a", "a">>,
      <<"a", "a", " ", "a", "l", "e", " ", "a", "a">>,
      <<"a", "a", " ", "o", "r", "a", "z", " ", "a", "a">>,
      <<"a", "a", " ", "a", "l", "e", " ", "a", " ", "o", "r", "a", "z", " ", "a">> }

Units == UNION {[1..n -> UnitAlphabet] : n \in 2..MaxUnitLen} \cup PauseExamples

\* Lines 110, 115, 122: the function is called on a stripped sentence longer
\* than max_size.
PausesInit ==
    /\ NoMain
    /\ unit \in Units
    /\ strip(unit) = unit
    /\ hard_limit \in 1..MaxHard
    /\ max_size \in 1..hard_limit
    /\ Len(unit) > max_size
    /\ text = <<>>
    /\ punctuation_fix = TRUE
    /\ pc = "unit"
    /\ chunks = <<>>
    /\ paragraphs = <<>>
    /\ pi = 0
    /\ sentences = <<>>
    /\ si = 0
    /\ para_chunks = <<>>
    /\ current_chunk = <<>>
    /\ emitted = <<>>

\* _split_by_natural_pauses(unit, max_size) runs and returns chunks.
SplitByNaturalPauses ==
    /\ pc = "unit"
    /\ chunks' = _split_by_natural_pauses(unit, max_size)
    /\ pc' = "pieces"
    /\ UNCHANGED <<mainvars, args, locals>>

PausesNext == SplitByNaturalPauses

PausesSpec == PausesInit /\ [][PausesNext]_vars

----------------------------------------------------------------------------
(* _split_by_words as a call of its own *)

\* Longest piece enumerated character by character.
MaxPieceLen == 6

\* The characters of the enumerated pieces: two letters, the space, the tab.
PieceAlphabet == {"a", "b", " ", "\t"}

\* Example 2 at one tenth of its size: a piece of 50 characters without
\* pause separators, max_size = 22, hard_limit = 40; once in words of five
\* letters, once with a word of 30 letters.
Example2Text == Repeat(<<"a", "b", "c", "d", "e", " ">>, 8) \o <<"a", "b">>

Example2LongWord ==
    Repeat(<<"a", "b", "c", "d", " ">>, 2) \o [i \in 1..30 |-> "x"]
        \o Repeat(<<" ", "a", "b", "c", "d">>, 2)

\* Lines 130-132: the function is called on a piece longer than hard_limit,
\* which is stripped as every natural chunk is.
WordsInit ==
    /\ NoMain
    /\ \/ /\ unit \in UNION {[1..n -> PieceAlphabet] : n \in 2..MaxPieceLen}
          /\ hard_limit \in 1..MaxHard
          /\ max_size \in 1..hard_limit
       \/ /\ unit \in {Example2Text, Example2LongWord}
          /\ hard_limit = 40
          /\ max_size = 22
    /\ strip(unit) = unit
    /\ Len(unit) > hard_limit
    /\ text = <<>>
    /\ punctuation_fix = TRUE
    /\ pc = "piece"
    /\ chunks = <<>>
    /\ paragraphs = <<>>
    /\ pi = 0
    /\ sentences = <<>>
    /\ si = 0
    /\ para_chunks = <<>>
    /\ current_chunk = <<>>
    /\ emitted = <<>>

\* _split_by_words(unit, max_size) runs and returns chunks.
SplitByWords ==
    /\ pc = "piece"
    /\ chunks' = _split_by_words(unit, max_size)
    /\ pc' = "words"
    /\ UNCHANGED <<mainvars, args, locals>>

WordsNext == SplitByWords

WordsSpec == WordsInit /\ [][WordsNext]_vars

----------------------------------------------------------------------------
(* Audio files and concatenate_audio_files *)

\* A path is a pair: the temporary file of chunk k (temp_chunk_00k.wav) or
\* the final output file.  fs maps each path that exists to its file, a
\* record of the format parameters and the frame data.
TempPath(k) == <<"temp_chunk", k>>

OutputPath == <<"output", 0>>

Exists(fsys, p) == p \in DOMAIN fsys

\* wave.open(p, 'wb') ... close: p holds file, every other path is as before.
write_file(fsys, p, file) ==
    [q \in (DOMAIN fsys) \cup {p} |-> IF q = p THEN file ELSE fsys[q]]

\* Lines 32-35: the frames of each remaining file are written after frames.
RECURSIVE append_frames(_, _, _)
append_frames(fsys, frames, files) ==
    IF files = <<>> THEN frames
    ELSE append_frames(fsys, frames \o fsys[Head(files)].frames, Tail(files))

\* concatenate_audio_files that loops over input_files where line 32 loops
\* over input_files[1:]: the first file is written twice.
concatenate_audio_files_first_twice(fsys, ins, out) ==
    IF ins = <<>> THEN [raised |-> "ValueError", fs |-> fsys]
    ELSE LET first == fsys[ins[1]]
         IN  [raised |-> "none",
              fs |-> write_file(fsys, out,
                        [params |-> first.params,
                         frames |-> append_frames(fsys, first.frames, ins)])]

\* concatenate_audio_files(input_files, output_file) on the files fsys: the
\* exception it ends with and the files it leaves.
concatenate_audio_files(fsys, ins, out) ==
    IF ins = <<>> THEN [raised |-> "ValueError", fs |-> fsys]
    ELSE LET first == fsys[ins[1]]
         IN  [raised |-> "none",
              fs |-> write_file(fsys, out,
                        [params |-> first.params,
                         frames |-> append_frames(fsys, first.frames, Tail(ins))])]

\* Longest enumerated list of input files.
MaxInputs == 3

\* The segment files of the enumerated calls and what each may hold.
SegmentPaths == {TempPath(k) : k \in 1..3}

SegmentFiles ==
    [params : {"mono", "stereo"}, frames : {<<"x">>, <<"y">>, <<"x", "y">>}]

\* An output file left by an earlier run.
OldOutput == [params |-> "old", frames |-> <<"old">>]

NoChunking ==
    /\ text = <<>>
    /\ max_size = 1
    /\ hard_limit = 1
    /\ punctuation_fix = TRUE
    /\ chunks = <<>>
    /\ NoLocals

\* Before a call of concatenate_audio_files on segment files that exist, the
\* output path being none of them.
ConcatInit ==
    /\ NoChunking
    /\ pc = "concat"
    /\ \E segments \in [SegmentPaths -> SegmentFiles] :
          \/ fs = segments
          \/ fs = write_file(segments, OutputPath, OldOutput)
    /\ input_files \in UNION {[1..n -> SegmentPaths] : n \in 0..MaxInputs}
    /\ output_file = OutputPath
    /\ raised = "none"
    /\ text_chunks = <<>>
    /\ chunk_files = <<>>
    /\ chunk_i = 0
    /\ tts_calls = <<>>
    /\ concat_calls = <<>>
    /\ test_chunks = FALSE
    /\ report = <<>>
    /\ chunks_file = <<>>
    /\ summary = <<>>

\* Lines 18-19: no input file, ValueError.
ConcatenateNothing ==
    /\ pc = "concat"
    /\ input_files = <<>>
    /\ raised' = concatenate_audio_files(fs, input_files, output_file).raised
    /\ fs' = concatenate_audio_files(fs, input_files, output_file).fs
    /\ pc' = "concat_raised"
    /\ UNCHANGED <<reportvars, args, chunks, locals, input_files, output_file, text_chunks,
                   chunk_files, chunk_i, tts_calls, concat_calls>>

\* Lines 22-35: the output file is written.
Concatenate ==
    /\ pc = "concat"
    /\ input_files # <<>>
    /\ raised' = concatenate_audio_files(fs, input_files, output_file).raised
    /\ fs' = concatenate_audio_files(fs, input_files, output_file).fs
    /\ pc' = "concat_done"
    /\ UNCHANGED <<reportvars, args, chunks, locals, input_files, output_file, text_chunks,
                   chunk_files, chunk_i, tts_calls, concat_calls>>

ConcatNext == ConcatenateNothing \/ Concatenate

ConcatSpec == ConcatInit /\ [][ConcatNext]_vars

----------------------------------------------------------------------------
(* main: the synthesis loop and the joining of the segments *)

\* The max_size main passes to chunk_text_intelligently.
MainMaxSize == 224

\* The texts main is run on.
MainTexts == TokenTexts

\* What tts.tts_to_file writes for chunk k, and a file it left unfinished
\* when it raised.
Speech(k) == [params |-> "speech", frames |-> <<k>>]

Unfinished == [params |-> "speech", frames |-> <<>>]

\* os.remove(p).
remove_file(fsys, p) == [q \in (DOMAIN fsys) \ {p} |-> fsys[q]]

\* Lines 222-227: each listed file that exists is removed; os.remove raises
\* on the files of stuck, which is caught and the loop goes on.
RECURSIVE cleanup_loop(_, _, _)
cleanup_loop(fsys, file_list, stuck) ==
    IF file_list = <<>> THEN fsys
    ELSE LET file_path == Head(file_list)
         IN  IF Exists(fsys, file_path) /\ file_path \notin stuck
             THEN cleanup_loop(remove_file(fsys, file_path), Tail(file_list), stuck)
             ELSE cleanup_loop(fsys, Tail(file_list), stuck)

\* cleanup_temp_files(file_list) on the files fsys, those of stuck being
\* impossible to remove: the exception it ends with and the files it leaves.
cleanup_temp_files(fsys, file_list, stuck) ==
    [raised |-> "none", fs |-> cleanup_loop(fsys, file_list, stuck)]

\* The lengths at and next to the limits of the report.
ReportLengths == {224, 225, 400, 401}

\* Most chunks of an enumerated list of long chunks.
MaxLongChunks == 2

\* A paragraph that is one token of n letters.  At any length it comes back
\* from chunk_text_intelligently as one chunk: lines 91-93 up to max_size,
\* lines 127-129 up to hard_limit, lines 199-210 beyond.
OneToken(n) == [k \in 1..n |-> "x"]

LongChunkLists ==
    UNION {[1..n -> {OneToken(m) : m \in ReportLengths}] : n \in 1..MaxLongChunks}

\* The text whose paragraphs are ps, a blank line between two of them.
RECURSIVE ParagraphsText(_)
ParagraphsText(ps) ==
    IF Len(ps) = 1 THEN Head(ps)
    ELSE Head(ps) \o <<"\n", "\n">> \o ParagraphsText(Tail(ps))

\* main starts on an enumerated text; or, for a text of long one-token
\* paragraphs, it has just come back from line 74 with those as its chunks.
MainInit ==
    /\ max_size = MainMaxSize
    /\ hard_limit = DefaultHardLimit
    /\ punctuation_fix = TRUE
    /\ chunks = <<>>
    /\ NoLocals
    /\ fs = <<>>
    /\ input_files = <<>>
    /\ output_file = <<>>
    /\ raised = "none"
    /\ tts_calls = <<>>
    /\ concat_calls = <<>>
    /\ test_chunks \in BOOLEAN
    /\ report = <<>>
    /\ chunks_file = <<>>
    /\ summary = <<>>
    /\ \/ /\ text \in MainTexts
          /\ text_chunks = <<>>
          /\ chunk_files = <<>>
          /\ chunk_i = 0
          /\ pc = "main"
       \/ /\ text_chunks \in LongChunkLists
          /\ text = ParagraphsText(text_chunks)
          /\ chunk_files = <<>>
          /\ chunk_i = 1
          /\ pc = "report"

\* Lines 74 and 145: the text is chunked, chunk_files = [].
ChunkText ==
    /\ pc = "main"
    /\ text_chunks' = chunk_text_intelligently(text, max_size, hard_limit, punctuation_fix)
    /\ chunk_files' = <<>>
    /\ chunk_i' = 1
    /\ pc' = "report"
    /\ UNCHANGED <<reportvars, args, chunks, locals, fs, input_files, output_file, raised,
                   tts_calls, concat_calls>>

\* The limits of the report's statuses.
SafeLimit == 224

WarnLimit == 400

\* chunk_status with < for <= in the first test of line 81.
chunk_status_lt(chunk_len) ==
    IF chunk_len < SafeLimit THEN "SAFE"
    ELSE IF chunk_len <= WarnLimit THEN "WARN" ELSE "TOO LONG"

\* Lines 81 and 97: the status of a chunk of chunk_len characters.
chunk_status(chunk_len) ==
    IF chunk_len <= SafeLimit THEN "SAFE"
    ELSE IF chunk_len <= WarnLimit THEN "WARN" ELSE "TOO LONG"

\* Lines 105-107: how many chunks of cs are of each kind.
safe_count(cs) == Cardinality({k \in 1..Len(cs) : Len(cs[k]) <= SafeLimit})

warn_count(cs) ==
    Cardinality({k \in 1..Len(cs) : SafeLimit < Len(cs[k]) /\ Len(cs[k]) <= WarnLimit})

error_count(cs) == Cardinality({k \in 1..Len(cs) : Len(cs[k]) > WarnLimit})

\* Lines 79-83: the length and the status of every chunk are printed.
PrintReport ==
    /\ pc = "report"
    /\ report' = [k \in 1..Len(text_chunks) |-> chunk_status(Len(text_chunks[k]))]
    /\ pc' = "reported"
    /\ UNCHANGED <<args, chunks, locals, fs, input_files, output_file, raised,
                   text_chunks, chunk_files, chunk_i, tts_calls, concat_calls,
                   test_chunks, chunks_file, summary>>

\* Lines 86-111: in test mode every chunk is written to the chunks file
\* under its length and status, the summary is printed and main returns.
SaveChunks ==
    /\ pc = "reported"
    /\ test_chunks
    /\ chunks_file' = [k \in 1..Len(text_chunks) |->
                          [chars |-> Len(text_chunks[k]),
                           status |-> chunk_status(Len(text_chunks[k])),
                           chunk |-> text_chunks[k]]]
    /\ summary' = [safe |-> safe_count(text_chunks),
                   warn |-> warn_count(text_chunks),
                   error |-> error_count(text_chunks)]
    /\ pc' = "test_done"
    /\ UNCHANGED <<args, chunks, locals, fs, input_files, output_file, raised,
                   text_chunks, chunk_files, chunk_i, tts_calls, concat_calls,
                   test_chunks, report>>

\* Lines 86-89 and 113-115: in test mode the chunks file cannot be written;
\* main reports the error and returns.
SaveChunksFails ==
    /\ pc = "reported"
    /\ test_chunks
    /\ pc' = "test_failed"
    /\ UNCHANGED <<args, chunks, locals, mainvars>>

\* Lines 117-142: the TTS model is loaded.
LoadTTS ==
    /\ pc = "reported"
    /\ ~test_chunks
    /\ pc' = "synthesis"
    /\ UNCHANGED <<args, chunks, locals, mainvars>>

\* Lines 119-126 and 133-139: the TTS dependencies or the model cannot be
\* loaded; main reports the error and returns.
LoadTTSFails ==
    /\ pc = "reported"
    /\ ~test_chunks
    /\ pc' = "aborted"
    /\ UNCHANGED <<args, chunks, locals, mainvars>>

\* Lines 147-160: tts_to_file writes the segment of the chunk, whose path is
\* appended to chunk_files.
SynthesisSucceeds ==
    /\ pc = "synthesis"
    /\ chunk_i <= Len(text_chunks)
    /\ tts_calls' = Append(tts_calls, [chunk |-> chunk_i, ok |-> TRUE])
    /\ fs' = write_file(fs, TempPath(chunk_i), Speech(chunk_i))
    /\ chunk_files' = Append(chunk_files, TempPath(chunk_i))
    /\ chunk_i' = chunk_i + 1
    /\ UNCHANGED <<reportvars, args, pc, chunks, locals, input_files, output_file, raised,
                   text_chunks, concat_calls>>

\* SynthesisFails with the exception leaving the loop.
SynthesisFails_abort ==
    /\ pc = "synthesis"
    /\ chunk_i <= Len(text_chunks)
    /\ tts_calls' = Append(tts_calls, [chunk |-> chunk_i, ok |-> FALSE])
    /\ fs' = fs
    /\ chunk_i' = Len(text_chunks) + 1
    /\ UNCHANGED <<reportvars, args, pc, chunks, locals, input_files, output_file, raised,
                   text_chunks, chunk_files, concat_calls>>

\* Lines 147-152 and 162-163: tts_to_file raises, with or without a file
\* left at the path; the exception is caught and the loop goes on.
SynthesisFails ==
    /\ pc = "synthesis"
    /\ chunk_i <= Len(text_chunks)
    /\ tts_calls' = Append(tts_calls, [chunk |-> chunk_i, ok |-> FALSE])
    /\ fs' \in {fs, write_file(fs, TempPath(chunk_i), Unfinished)}
    /\ chunk_i' = chunk_i + 1
    /\ UNCHANGED <<reportvars, args, pc, chunks, locals, input_files, output_file, raised,
                   text_chunks, chunk_files, concat_calls>>

\* Line 166, chunk_files empty: nothing is joined.
NothingToJoin ==
    /\ pc = "synthesis"
    /\ chunk_i > Len(text_chunks)
    /\ chunk_files = <<>>
    /\ pc' = "end"
    /\ UNCHANGED <<args, chunks, locals, mainvars>>

\* Lines 166-172: concatenate_audio_files(chunk_files, final_output_path)
\* returns.
JoinChunks ==
    /\ pc = "synthesis"
    /\ chunk_i > Len(text_chunks)
    /\ chunk_files # <<>>
    /\ input_files' = chunk_files
    /\ output_file' = OutputPath
    /\ concat_calls' = Append(concat_calls, chunk_files)
    /\ raised' = concatenate_audio_files(fs, chunk_files, OutputPath).raised
    /\ fs' = concatenate_audio_files(fs, chunk_files, OutputPath).fs
    /\ pc' = "joined"
    /\ UNCHANGED <<reportvars, args, chunks, locals, text_chunks, chunk_files, chunk_i, tts_calls>>

\* JoinFails with the temporary files removed all the same, as from a
\* finally clause.
JoinFails_cleanup ==
    /\ pc = "synthesis"
    /\ chunk_i > Len(text_chunks)
    /\ chunk_files # <<>>
    /\ input_files' = chunk_files
    /\ output_file' = OutputPath
    /\ concat_calls' = Append(concat_calls, chunk_files)
    /\ raised' = "Exception"
    /\ fs' = cleanup_temp_files(fs, chunk_files, {}).fs
    /\ pc' = "end"
    /\ UNCHANGED <<reportvars, args, chunks, locals, text_chunks, chunk_files, chunk_i, tts_calls>>

\* Lines 166-171 and 178-180: concatenate_audio_files raises on an I/O
\* error, before or after it has begun the output file; the exception is
\* caught.
JoinFails ==
    /\ pc = "synthesis"
    /\ chunk_i > Len(text_chunks)
    /\ chunk_files # <<>>
    /\ input_files' = chunk_files
    /\ output_file' = OutputPath
    /\ concat_calls' = Append(concat_calls, chunk_files)
    /\ raised' = "Exception"
    /\ fs' \in {fs, write_file(fs, OutputPath, fs[chunk_files[1]])}
    /\ pc' = "end"
    /\ UNCHANGED <<reportvars, args, chunks, locals, text_chunks, chunk_files, chunk_i, tts_calls>>

\* Line 176: the temporary files are removed, but for those that cannot be.
Cleanup ==
    /\ pc = "joined"
    /\ \E stuck \in SUBSET {chunk_files[k] : k \in 1..Len(chunk_files)} :
          /\ fs' = cleanup_temp_files(fs, chunk_files, stuck).fs
          /\ raised' = cleanup_temp_files(fs, chunk_files, stuck).raised
    /\ pc' = "end"
    /\ UNCHANGED <<reportvars, args, chunks, locals, input_files, output_file,
                   text_chunks, chunk_files, chunk_i, tts_calls, concat_calls>>

MainNext ==
    \/ ChunkText
    \/ PrintReport
    \/ SaveChunks
    \/ SaveChunksFails
    \/ LoadTTS
    \/ LoadTTSFails
    \/ SynthesisSucceeds
    \/ SynthesisFails
    \/ NothingToJoin
    \/ JoinChunks
    \/ JoinFails
    \/ Cleanup

MainSpec == MainInit /\ [][MainNext]_vars

----------------------------------------------------------------------------
(* Vocabulary of the properties *)

Done == pc = "done"

\* The text the splitting works on (after Step 0).
Normalized == normalize(text, punctuation_fix)

Contains(s, c) == \E i \in 1..Len(s) : s[i] = c

NoWhitespace(s) == \A i \in 1..Len(s) : ~IsSpace(s[i])

OnlyWhitespace(s) == \A i \in 1..Len(s) : IsSpace(s[i])

\* c occurs in s as a contiguous run of characters.
IsInfix(c, s) == \E k \in 0..(Len(s) - Len(c)) : SubSeq(s, k + 1, k + Len(c)) = c

IsPrefix(c, s) == Len(c) <= Len(s) /\ SubSeq(s, 1, Len(c)) = c

IsContent(c) == ~IsSpace(c) /\ c # ";"

\* The characters of s that are neither whitespace nor semicolons, in order.
Letters(s) == SelectSeq(s, IsContent)

LettersOfEach(ss) == [i \in 1..Len(ss) |-> Letters(ss[i])]

\* The source paragraphs of a text, read off its lines without the code's
\* loop: the maximal runs of lines that are not blank, each as its letters.
RECURSIVE SourceParagraphsFrom(_, _, _)
SourceParagraphsFrom(lines, cur, open) ==
    IF lines = <<>> THEN (IF open THEN <<cur>> ELSE <<>>)
    ELSE IF OnlyWhitespace(Head(lines))
         THEN (IF open THEN <<cur>> ELSE <<>>)
                  \o SourceParagraphsFrom(Tail(lines), <<>>, FALSE)
         ELSE SourceParagraphsFrom(Tail(lines), cur \o Letters(Head(lines)), TRUE)

SourceParagraphs(s) == SourceParagraphsFrom(split(s, "\n"), <<>>, FALSE)

\* The chunks cs (as letters) can be dealt out to the paragraphs ps (as
\* letters) in order, each chunk wholly to one paragraph, so that each
\* paragraph's chunks spell that paragraph; acc is what the chunks dealt to
\* the first paragraph spell so far.
RECURSIVE DealtInOrder(_, _, _)
DealtInOrder(cs, ps, acc) ==
    IF ps = <<>> THEN cs = <<>>
    ELSE \/ acc = Head(ps) /\ DealtInOrder(cs, Tail(ps), <<>>)
         \/ /\ cs # <<>>
            /\ IsPrefix(acc \o Head(cs), Head(ps))
            /\ DealtInOrder(Tail(cs), ps, acc \o Head(cs))

\* A letter no enumerated text holds.
Fresh == "x"

----------------------------------------------------------------------------
(* Properties *)

\* C1: every returned chunk is at most hard_limit long, unless it holds no
\* whitespace and is a run of more than hard_limit characters of the input
\* (a single word that was already too long); the oversized token of
\* Example 4 comes back as the one chunk.
C1_HardLimit ==
    Done =>
        /\ \A i \in 1..Len(chunks) :
              \/ Len(chunks[i]) <= hard_limit
              \/ NoWhitespace(chunks[i]) /\ IsInfix(chunks[i], Normalized)
        /\ (NoWhitespace(text) /\ ~Contains(Normalized, ";") /\ Len(text) > hard_limit)
              => chunks = <<text>>

\* Example 4 has run: one chunk, longer than hard_limit.
C1_Witness ==
    /\ Done
    /\ text = Example4Text
    /\ Len(chunks) = 1
    /\ Len(chunks[1]) > hard_limit

\* C2: chunking any returned chunk again, with the same parameters, returns
\* just that chunk.
C2_Idempotent ==
    Done =>
        \A i \in 1..Len(chunks) :
            chunk_text_intelligently(chunks[i], max_size, hard_limit, punctuation_fix)
                = <<chunks[i]>>

\* Several chunks came back, one of them between max_size and hard_limit.
C2_Witness ==
    /\ Done
    /\ Len(chunks) >= 2
    /\ \E i \in 1..Len(chunks) :
          Len(chunks[i]) > max_size /\ Len(chunks[i]) <= hard_limit

\* C3: when every paragraph is at most max_size long, the chunks are exactly
\* the paragraphs, in order; Example 1 gives its two paragraphs with the
\* periods replaced.
C3_ShortParagraphs ==
    Done =>
        /\ all_within(split_paragraphs(Normalized), max_size)
              => chunks = split_paragraphs(Normalized)
        /\ text = Example1Text
              => chunks = << <<"S", "h", "o", "r", "t", " ", "l", "i", "n", "e", " ",
                               "o", "n", "e", ";">>,
                             <<"S", "h", "o", "r", "t", " ", "l", "i", "n", "e", " ",
                               "t", "w", "o", ";">> >>

\* Two or more paragraphs, none longer than max_size and one exactly that
\* long, have been chunked.
C3_Witness ==
    /\ Done
    /\ Len(split_paragraphs(Normalized)) >= 2
    /\ all_within(split_paragraphs(Normalized), max_size)
    /\ \E i \in 1..Len(split_paragraphs(Normalized)) :
          Len(split_paragraphs(Normalized)[i]) = max_size
    /\ Len(chunks) >= 2

\* C4: no chunk crosses a paragraph boundary: the chunks can be dealt out to
\* the source paragraphs in order, each chunk wholly inside one paragraph.
C4_ParagraphBoundaries ==
    Done => DealtInOrder(LettersOfEach(chunks), SourceParagraphs(Normalized), <<>>)

\* A text of two paragraphs, one short and one longer than max_size, has
\* been chunked.
C4_Witness ==
    /\ Done
    /\ Len(SourceParagraphs(Normalized)) = 2
    /\ \E i, j \in 1..Len(split_paragraphs(Normalized)) :
          /\ Len(split_paragraphs(Normalized)[i]) <= max_size
          /\ Len(split_paragraphs(Normalized)[j]) > max_size
    /\ Len(chunks) >= 2

\* C6: the chunks, read in order, hold exactly the letters of the normalized
\* text (its characters other than whitespace and semicolons) in their order.
C6_ContentPreserved ==
    Done => Letters(Flatten(chunks)) = Letters(Normalized)

\* Sentences were grouped: a chunk holds the "; " join, and another chunk
\* follows or precedes it.
C6_Witness ==
    /\ Done
    /\ Len(chunks) >= 2
    /\ \E i \in 1..Len(chunks) : IsInfix(<<";", " ">>, chunks[i])
    /\ ~IsInfix(<<";", " ">>, Normalized)

\* C7: no returned chunk is empty or only whitespace.
C7_NoEmptyChunk ==
    Done => \A i \in 1..Len(chunks) : strip(chunks[i]) # <<>>

\* A unit that starts with a separator wider than max_size was split at it.
C7_Witness ==
    /\ Done
    /\ Len(Normalized) > max_size
    /\ IsPrefix(<<",", " ", " ">>, Normalized)
    /\ Len(chunks) >= 2
    /\ chunks[1] = <<",">>

\* C8: an empty text, and a text of whitespace and blank lines only, give no
\* chunks.
C8_EmptyInput ==
    (Done /\ OnlyWhitespace(text)) => chunks = <<>>

\* A text of spaces and line breaks has been chunked.
C8_Witness ==
    /\ Done
    /\ OnlyWhitespace(text)
    /\ Contains(text, " ")
    /\ Contains(text, "\n")
    /\ chunks = <<>>

\* C10: with punctuation_fix no chunk holds a period and the text is chunked
\* as the text with a semicolon for every period is; without it the periods
\* stay in the chunks and the text is chunked as with any other letter in
\* their place.
C10_PunctuationFix ==
    Done =>
        /\ punctuation_fix =>
              /\ \A i \in 1..Len(chunks) : ~Contains(chunks[i], ".")
              /\ chunks = chunk_text_intelligently(replace(text, ".", ";"),
                                                   max_size, hard_limit, FALSE)
        /\ (~punctuation_fix /\ ~Contains(text, Fresh)) =>
              LET other == chunk_text_intelligently(replace(text, ".", Fresh),
                                                    max_size, hard_limit, FALSE)
              IN  chunks = [i \in 1..Len(other) |-> replace(other[i], Fresh, ".")]

\* A text with periods, longer than max_size, was chunked with the fix: the
\* periods ended sentences.
C10_Witness ==
    /\ Done
    /\ punctuation_fix
    /\ Contains(text, ".")
    /\ ~Contains(text, ";")
    /\ ~Contains(text, "\n")
    /\ NoWhitespace(text)
    /\ Len(chunks) >= 2

\* The chunks the comma pattern alone gives for a unit.
CommaChunks(u) == reassemble(re_split(pause_patterns[1], u), max_size)

\* The comma pattern splits the unit and every chunk it gives fits max_size.
CommaSplitFits(u) ==
    /\ Len(re_split(pause_patterns[1], u)) > 1
    /\ all_within(CommaChunks(u), max_size)

\* C5: when the comma pattern splits an oversized unit into chunks that all
\* fit max_size, the unit's chunks are exactly those, each fits max_size, and
\* every boundary between two of them is at a comma: the earlier chunk ends
\* with the comma or the later one starts with it.
C5_CommaBeforeWords ==
    (unit # <<>> /\ CommaSplitFits(unit)) =>
        /\ emitted = CommaChunks(unit)
        /\ all_within(emitted, max_size)
        /\ \A j \in 1..(Len(emitted) - 1) :
              \/ emitted[j][Len(emitted[j])] = ","
              \/ emitted[j + 1][1] = ","

\* The unit of Example 3 has been split at its commas into four chunks.
C5_Witness ==
    /\ unit = Example3Text
    /\ CommaSplitFits(unit)
    /\ Len(emitted) = 4
    /\ pc = "returned"

\* C9: every call returns.
C9_Terminates == <>(pc = "returned")

\* The call has returned for a text that is one token longer than hard_limit
\* and was handed down to the word splitting.
C9_Witness ==
    /\ pc = "returned"
    /\ text # <<>>
    /\ NoWhitespace(text)
    /\ ~Contains(Normalized, ";")
    /\ Len(text) > hard_limit
    /\ unit = text
    /\ chunks = <<text>>

----------------------------------------------------------------------------
(* Properties of _split_by_natural_pauses *)

\* Pattern k splits u into more than one segment.
Splits(k, u) == Len(re_split(pause_patterns[k], u)) > 1

\* The chunks the segments of pattern k are reassembled into.
Reassembly(k, u) == reassemble(re_split(pause_patterns[k], u), max_size)

\* Pattern k splits u and every chunk it gives fits max_size.
Qualifies(k, u) == Splits(k, u) /\ all_within(Reassembly(k, u), max_size)

Patterns == 1..Len(pause_patterns)

\* k is the first pattern, in the order of the list, that P holds of.
IsFirst(k, P(_)) == P(k) /\ \A j \in 1..(k - 1) : ~P(j)

\* The literals of the patterns, highest priority first, and which of them
\* need whitespace before the literal.
PriorityOrder ==
    << <<",">>, <<":">>, <<EmDash>>, <<"-">>, <<"i">>, <<"a", "l", "e">>,
       <<"o", "r", "a", "z">> >>

Conjunctions == { <<"i">>, <<"a", "l", "e">>, <<"o", "r", "a", "z">> }

EndsWith(c, lit) == Len(c) >= Len(lit) /\ SubSeq(c, Len(c) - Len(lit) + 1, Len(c)) = lit

Pieces == pc = "pieces"

\* C12: for the chosen pattern every chunk boundary falls immediately after a
\* separator occurrence: every chunk but the last ends with the literal of
\* the separator (its whitespace stripped).
C12_SeparatorAttached ==
    Pieces =>
        \A k \in Patterns :
            LET Q(j) == Qualifies(j, unit)
            IN  IsFirst(k, Q) =>
                    \A i \in 1..(Len(chunks) - 1) :
                        EndsWith(chunks[i], pause_patterns[k].lit)

\* C13 as stated: when the first pattern that splits the unit leaves chunks
\* longer than max_size, none longer than hard_limit, its chunks are the
\* result.
C13_FirstSplitWins ==
    Pieces =>
        \A k \in Patterns :
            LET S(j) == Splits(j, unit)
            IN  ( /\ IsFirst(k, S)
                  /\ ~all_within(Reassembly(k, unit), max_size)
                  /\ all_within(Reassembly(k, unit), hard_limit) )
                    => chunks = Reassembly(k, unit)

\* C13 amended: a pattern that splits the unit but leaves a chunk longer
\* than max_size is passed over and the lower-priority patterns are tried;
\* the result is never its reassembly, a chunk longer than max_size comes back
\* only as the whole unit, when no pattern qualifies, and when a
\* lower-priority pattern qualifies the result fits max_size.
C13_FirstFittingWins ==
    Pieces =>
        /\ \A k \in Patterns :
              (Splits(k, unit) /\ ~all_within(Reassembly(k, unit), max_size))
                  => chunks # Reassembly(k, unit)
        /\ ~all_within(chunks, max_size)
              => (chunks = <<unit>> /\ \A k \in Patterns : ~Qualifies(k, unit))
        /\ (\E k \in Patterns : Qualifies(k, unit)) => all_within(chunks, max_size)

\* The first pattern that splits the unit left a chunk longer than max_size,
\* within hard_limit, and the chunks of a lower-priority pattern came back.
C13_Witness ==
    /\ Pieces
    /\ \E k \in Patterns :
          LET S(j) == Splits(j, unit)
          IN  /\ IsFirst(k, S)
              /\ ~all_within(Reassembly(k, unit), max_size)
              /\ all_within(Reassembly(k, unit), hard_limit)
              /\ \E j \in (k + 1)..Len(pause_patterns) :
                    Qualifies(j, unit) /\ chunks = Reassembly(j, unit)

\* C14: the patterns are listed comma, colon, em-dash, hyphen, " i ",
\* " ale ", " oraz "; the result is the reassembly of the first of them that
\* splits the text into chunks that all fit max_size, and the text itself,
\* alone, when there is none; so either every element fits max_size or the
\* result is the text unchanged.
C14_PatternOrder ==
    Pieces =>
        /\ [k \in Patterns |-> pause_patterns[k].lit] = PriorityOrder
        /\ \A k \in Patterns :
              pause_patterns[k].lead <=> (pause_patterns[k].lit \in Conjunctions)
        /\ \A k \in Patterns :
              LET Q(j) == Qualifies(j, unit)
              IN  IsFirst(k, Q) => chunks = Reassembly(k, unit)
        /\ (\A k \in Patterns : ~Qualifies(k, unit)) => chunks = <<unit>>
        /\ all_within(chunks, max_size) \/ chunks = <<unit>>

\* The comma splits the unit and so does the colon, both into chunks that
\* fit, and the chunks of the comma came back, unlike those of the colon.
C14_Witness ==
    /\ Pieces
    /\ Qualifies(1, unit)
    /\ Qualifies(2, unit)
    /\ chunks = Reassembly(1, unit)
    /\ chunks # Reassembly(2, unit)

----------------------------------------------------------------------------
(* Properties of the steps of _chunk_paragraph and of the paragraphs *)

\* The chunks one piece of the natural-pause splitting becomes.
PieceChunks(p) ==
    IF Len(p) <= hard_limit THEN <<p>> ELSE _split_by_words(p, max_size)

\* C15: each piece the natural-pause splitting returns for an oversized unit
\* is one chunk, unsplit, when it is at most hard_limit long, also when it is
\* longer than max_size, and is split by words exactly when it is longer than
\* hard_limit.
C15_HardLimitConcession ==
    unit # <<>> =>
        LET pieces == _split_by_natural_pauses(unit, max_size)
        IN  /\ emitted = Flatten([i \in 1..Len(pieces) |-> PieceChunks(pieces[i])])
            /\ (pieces = <<unit>> /\ Len(unit) <= hard_limit) => emitted = <<unit>>
            /\ (pieces = <<unit>> /\ Len(unit) > hard_limit)
                  => emitted = _split_by_words(unit, max_size)

\* A unit of several words, longer than max_size and within hard_limit, came
\* out as one chunk.
C15_Witness ==
    /\ unit # <<>>
    /\ Len(unit) > max_size
    /\ Len(unit) <= hard_limit
    /\ Contains(unit, " ")
    /\ emitted = <<unit>>

\* A step of the sentence loop on a unit that is not oversized.
GroupingStep == CanGroupSentence /\ si' = si + 1 /\ pc' = "sentences"

Joined(buffer, u) == buffer \o <<";", " ">> \o u

\* C16: a step of the grouping leaves a buffer of at most max_size
\* characters and adds no longer chunk; it flushes the buffer only when the
\* buffer, "; " and the unit together are longer than max_size, the flushed
\* chunk is the buffer and the unit starts the next one; otherwise the unit
\* joins the buffer after "; ".
C16_GreedyGrouping ==
    [][GroupingStep =>
        /\ Len(current_chunk') <= max_size
        /\ \A i \in (Len(para_chunks) + 1)..Len(para_chunks') :
              Len(para_chunks'[i]) <= max_size
        /\ para_chunks' # para_chunks =>
              /\ para_chunks' = Append(para_chunks, current_chunk)
              /\ current_chunk' = cur_sentence
              /\ Len(Joined(current_chunk, cur_sentence)) > max_size
        /\ (para_chunks' = para_chunks /\ cur_sentence # <<>> /\ current_chunk # <<>>) =>
              /\ current_chunk' = Joined(current_chunk, cur_sentence)
              /\ Len(Joined(current_chunk, cur_sentence)) <= max_size
        /\ (cur_sentence # <<>> /\ current_chunk = <<>>) =>
              /\ current_chunk' = cur_sentence
              /\ para_chunks' = para_chunks
        /\ cur_sentence = <<>> =>
              /\ current_chunk' = current_chunk
              /\ para_chunks' = para_chunks
    ]_vars

\* Two units were grouped into one chunk, which was flushed before a third
\* that starts the next buffer.
C16_Witness ==
    /\ pc = "sentences"
    /\ unit = <<>>
    /\ para_chunks # <<>>
    /\ Contains(para_chunks[Len(para_chunks)], ";")
    /\ current_chunk # <<>>

\* C17: when an oversized unit is met the buffer is flushed and left empty;
\* then the unit's chunks, at least one, holding the text of that unit and
\* of no other, are appended after the chunks already there, and the buffer
\* is still empty when the grouping resumes.
C17_OversizedAlone ==
    [][ /\ (CanSavePending /\ pc' = "oversized") =>
              /\ current_chunk' = <<>>
              /\ para_chunks' = IF current_chunk # <<>>
                                 THEN Append(para_chunks, current_chunk)
                                 ELSE para_chunks
        /\ (pc = "oversized" /\ pc' = "sentences") =>
              /\ current_chunk = <<>>
              /\ current_chunk' = <<>>
              /\ unit' = cur_sentence
              /\ Len(unit') > max_size
              /\ emitted' # <<>>
              /\ para_chunks' = para_chunks \o emitted'
              /\ Letters(Flatten(emitted')) = Letters(unit')
    ]_vars

\* An oversized unit was split after a buffer had been flushed before it.
C17_Witness ==
    /\ pc = "sentences"
    /\ unit # <<>>
    /\ Len(para_chunks) > Len(emitted)
    /\ current_chunk = <<>>

\* Lines a..b of lines are a maximal run of lines that are not blank.
IsRun(lines, a, b) ==
    /\ a <= b
    /\ \A i \in a..b : ~OnlyWhitespace(lines[i])
    /\ a = 1 \/ OnlyWhitespace(lines[a - 1])
    /\ b = Len(lines) \/ OnlyWhitespace(lines[b + 1])

\* The lines a..b, each trimmed, with one space between two of them.
RECURSIVE JoinLines(_, _, _)
JoinLines(lines, a, b) ==
    IF a = b THEN strip(lines[a])
    ELSE strip(lines[a]) \o <<" ">> \o JoinLines(lines, a + 1, b)

\* C19: the paragraphs are the maximal runs of non-blank lines of the text,
\* in order, each run with its lines trimmed and joined by exactly one space;
\* no paragraph is empty and none holds a line break.
C19_Paragraphs ==
    pc \notin {"call", "start"} =>
        LET lines == split(Normalized, "\n")
            starts == {a \in 1..Len(lines) : \E b \in a..Len(lines) : IsRun(lines, a, b)}
            nth(a) == Cardinality({a2 \in starts : a2 <= a})
        IN  /\ Len(paragraphs) = Cardinality(starts)
            /\ \A a \in starts : \A b \in a..Len(lines) :
                  IsRun(lines, a, b) => paragraphs[nth(a)] = JoinLines(lines, a, b)
            /\ \A p \in 1..Len(paragraphs) :
                  paragraphs[p] # <<>> /\ ~Contains(paragraphs[p], "\n")

\* Two lines of a text without spaces were joined into one paragraph.
C19_Witness ==
    /\ pc = "returned"
    /\ \E p \in 1..Len(paragraphs) : Contains(paragraphs[p], " ")
    /\ ~Contains(text, " ")

----------------------------------------------------------------------------
(* Properties of _split_by_words *)

\* The words ws with one space between two of them.
RECURSIVE JoinWords(_)
JoinWords(ws) ==
    IF ws = <<>> THEN <<>>
    ELSE IF Len(ws) = 1 THEN Head(ws)
    ELSE Head(ws) \o <<" ">> \o JoinWords(Tail(ws))

WordsOfEach(cs) == [i \in 1..Len(cs) |-> split_ws(cs[i])]

\* No pause pattern splits the piece.
NoPauseSeparators(u) == \A k \in Patterns : ~Splits(k, u)

IsExample2 ==
    /\ Len(unit) = 50
    /\ max_size = 22
    /\ hard_limit = 40
    /\ NoPauseSeparators(unit)

\* The chunks are the words of the piece, in order, joined by single spaces;
\* a chunk fits max_size or is one word; no chunk has room for the first word
\* of the next.
WordChunks ==
    /\ Flatten(WordsOfEach(chunks)) = split_ws(unit)
    /\ \A i \in 1..Len(chunks) :
          /\ chunks[i] # <<>>
          /\ chunks[i] = JoinWords(split_ws(chunks[i]))
          /\ Len(chunks[i]) <= max_size \/ Len(split_ws(chunks[i])) = 1
    /\ \A i \in 1..(Len(chunks) - 1) :
          Len(chunks[i]) + 1 + Len(Head(split_ws(chunks[i + 1]))) > max_size

\* C18 as stated: the chunks are the words in order, as above, and the
\* chunks of a piece of Example 2 all fit max_size.
C18_WordSplitting ==
    pc = "words" => (WordChunks /\ (IsExample2 => all_within(chunks, max_size)))

\* C18 amended: the chunks are the words in order, as above, and the chunks
\* of a piece whose words are each at most max_size long, as those of
\* Example 2 in words of five letters, all fit max_size.
C18_WordSplittingOfShortWords ==
    pc = "words" =>
        /\ WordChunks
        /\ all_within(split_ws(unit), max_size) => all_within(chunks, max_size)

\* The piece of Example 2 in words of five letters came back in chunks of
\* several words that all fit max_size.
C18_Witness ==
    /\ pc = "words"
    /\ unit = Example2Text
    /\ IsExample2
    /\ Len(chunks) >= 2
    /\ all_within(chunks, max_size)
    /\ \E i \in 1..Len(chunks) : Len(split_ws(chunks[i])) > 1

----------------------------------------------------------------------------
(* Properties of concatenate_audio_files *)

\* The frame data of the files at paths, one after the other.
RECURSIVE FramesInOrder(_)
FramesInOrder(paths) ==
    IF paths = <<>> THEN <<>>
    ELSE fs[Head(paths)].frames \o FramesInOrder(Tail(paths))

\* C11: after a call on a list that is not empty no exception is raised,
\* the output file exists with the format parameters of the first input and
\* its frame data is that of the inputs in list order, each once; on the
\* empty list ValueError is raised and no output file is written.
C11_Concatenation ==
    /\ pc = "concat_done" =>
          /\ raised = "none"
          /\ Exists(fs, output_file)
          /\ fs[output_file].params = fs[input_files[1]].params
          /\ fs[output_file].frames = FramesInOrder(input_files)
          /\ Len(fs[output_file].frames) >= Len(input_files)
    /\ pc = "concat_raised" =>
          /\ input_files = <<>>
          /\ raised = "ValueError"
          /\ Exists(fs, output_file) => fs[output_file] = OldOutput

\* Three files, the first listed twice and differing from the second in its
\* parameters and its frames, were written over an old output file.
C11_Witness ==
    /\ pc = "concat_done"
    /\ Len(input_files) = 3
    /\ input_files[1] = input_files[3]
    /\ input_files[1] # input_files[2]
    /\ fs[input_files[1]].params # fs[input_files[2]].params
    /\ fs[input_files[1]].frames # fs[input_files[2]].frames
    /\ fs[output_file] # OldOutput

----------------------------------------------------------------------------
(* Properties of main *)

IsOk(call) == call.ok

\* The paths of the chunks whose synthesis succeeded, in the order of the
\* calls.
SynthesizedPaths ==
    [k \in 1..Len(SelectSeq(tts_calls, IsOk)) |->
        TempPath(SelectSeq(tts_calls, IsOk)[k].chunk)]

LoopOver == pc \in {"joined", "end"}

\* C20: the chunks attempted so far are 1, 2, ... in order, each once,
\* whatever failed; when the loop is over every chunk has been attempted;
\* chunk_files lists the successfully synthesized chunks in chunk order;
\* concatenation is called on that list, once, exactly when it is not empty.
C20_PartialSuccess ==
    /\ pc \in {"synthesis", "joined", "end"} =>
          /\ chunk_i <= Len(text_chunks) + 1
          /\ tts_calls \in [1..(chunk_i - 1) -> [chunk : 1..Len(text_chunks), ok : BOOLEAN]]
          /\ \A k \in 1..Len(tts_calls) : tts_calls[k].chunk = k
          /\ chunk_files = SynthesizedPaths
    /\ LoopOver =>
          /\ Len(tts_calls) = Len(text_chunks)
          /\ concat_calls = IF SynthesizedPaths # <<>> THEN <<SynthesizedPaths>> ELSE <<>>
    /\ ~LoopOver => concat_calls = <<>>

\* Of three chunks the second failed and the two others were joined.
C20_Witness ==
    /\ pc = "end"
    /\ Len(text_chunks) = 3
    /\ tts_calls[1].ok /\ ~tts_calls[2].ok /\ tts_calls[3].ok
    /\ concat_calls = << <<TempPath(1), TempPath(3)>> >>
    /\ raised = "none"

----------------------------------------------------------------------------
(* Properties of main's chunk report *)

Statuses == {"SAFE", "WARN", "TOO LONG"}

\* st is the status the report is to give a chunk of n characters.
RightStatus(st, n) ==
    /\ st \in Statuses
    /\ st = "SAFE" <=> n <= 224
    /\ st = "WARN" <=> (224 < n /\ n <= 400)
    /\ st = "TOO LONG" <=> n > 400

HowMany(st) == Cardinality({k \in 1..Len(report) : report[k] = st})

\* C21: once the report is printed every chunk has one status, SAFE when it
\* is at most 224 characters long, WARN from 225 to 400, TOO LONG beyond; in
\* test mode every chunk, whatever its status, is written to the chunks file
\* with that status, and the three counts of the summary are those of the
\* statuses and add up to the number of chunks; otherwise every chunk,
\* whatever its status, is handed to the synthesis.
C21_ChunkReport ==
    /\ pc \notin {"main", "report"} =>
          /\ Len(report) = Len(text_chunks)
          /\ \A k \in 1..Len(report) : RightStatus(report[k], Len(text_chunks[k]))
    /\ pc = "test_done" =>
          /\ Len(chunks_file) = Len(text_chunks)
          /\ \A k \in 1..Len(chunks_file) :
                /\ chunks_file[k].chunk = text_chunks[k]
                /\ chunks_file[k].chars = Len(text_chunks[k])
                /\ chunks_file[k].status = report[k]
          /\ summary.safe = HowMany("SAFE")
          /\ summary.warn = HowMany("WARN")
          /\ summary.error = HowMany("TOO LONG")
          /\ summary.safe + summary.warn + summary.error = Len(text_chunks)
    /\ pc \in {"joined", "end"} =>
          /\ Len(tts_calls) = Len(text_chunks)
          /\ \A k \in 1..Len(tts_calls) : tts_calls[k].chunk = k

\* A chunk that is too long and one at the limit of the safe ones were both
\* synthesized and joined.
C21_Witness ==
    /\ pc = "end"
    /\ report = <<"TOO LONG", "SAFE">>
    /\ Len(text_chunks[2]) = 224
    /\ tts_calls[1].ok /\ tts_calls[2].ok
    /\ raised = "none"

----------------------------------------------------------------------------
(* Properties of the cleanup in main *)

\* The step removes the temporary file of some chunk.
RemovesSegment ==
    \E k \in 1..Len(text_chunks) :
        Exists(fs, TempPath(k)) /\ ~Exists(fs', TempPath(k))

\* The segments of the successfully synthesized chunks, one after the other.
RECURSIVE SpeechOf(_)
SpeechOf(calls) ==
    IF calls = <<>> THEN <<>>
    ELSE (IF Head(calls).ok THEN Speech(Head(calls).chunk).frames ELSE <<>>)
             \o SpeechOf(Tail(calls))

\* C22: a step removes a temporary file only when concatenate_audio_files
\* has been called and has returned without an exception, the output file
\* holding the segments; when the concatenation raised, the step removes
\* none, and every successfully synthesized segment is still there, as it was
\* synthesized; and the cleanup ends main's try without an exception, also
\* when files could not be removed.
C22_CleanupAfterJoin ==
    [][ /\ RemovesSegment =>
              /\ pc = "joined"
              /\ raised = "none"
              /\ concat_calls = <<chunk_files>>
              /\ Exists(fs, OutputPath)
              /\ fs[OutputPath].frames = SpeechOf(tts_calls)
              /\ Exists(fs', OutputPath) /\ fs'[OutputPath] = fs[OutputPath]
        /\ raised' = "Exception" =>
              /\ ~RemovesSegment
              /\ \A k \in 1..Len(tts_calls') :
                    tts_calls'[k].ok =>
                        /\ Exists(fs', TempPath(k))
                        /\ fs'[TempPath(k)] = Speech(k)
        /\ pc = "joined" => (pc' = "end" /\ raised' = "none")
    ]_vars

\* After a concatenation that returned, the cleanup removed one temporary
\* file, could not remove another, and main went on.
C22_Witness ==
    /\ pc = "end"
    /\ raised = "none"
    /\ Exists(fs, OutputPath)
    /\ \E j, k \in 1..Len(chunk_files) :
          Exists(fs, chunk_files[j]) /\ ~Exists(fs, chunk_files[k])

====
